---------------------------- MODULE Spec2Model ----------------------------
(***************************************************************************)
(* A model of bevy_mod_lookat (src/src/lib.rs): the look-at math of        *)
(* calculate_local_rotation_to_target and the two PostUpdate systems       *)
(* rotate_towards and update_global_transforms.                            *)
(*                                                                         *)
(* Arithmetic is exact.  A direction is an integer vector reduced by the   *)
(* gcd of its components (it stands for the unit vector of that            *)
(* direction); a rotation is the triple <<right, up, back>> of the         *)
(* directions its matrix columns point in (Mat3::from_cols).  A rotation   *)
(* that is multiplied from the left (a parent's world rotation, a local    *)
(* rotation inside a hierarchy) is one of the 24 axis-aligned rotations,   *)
(* whose columns are unit vectors, so that every product is exact.         *)
(* The quaternion a rotation is stored as is not modelled: two rotations   *)
(* are compared as matrices (q and -q are not told apart).                 *)
(***************************************************************************)
EXTENDS Integers, FiniteSets, Sequences, TLC

VARIABLES
    transform,   \* Transform component per entity (local), or NoComponent
    global,      \* GlobalTransform component per entity (cached), or NoComponent
    parentOf,    \* Parent component per entity: an entity, or NoEntity
    rotateTo,    \* RotateTo component per entity, or NoComponent
    changed,     \* Changed<Transform> as update_global_transforms will see it
    pc,          \* position in the frame's schedule
    todo,        \* entities the running system's loop has still to visit
    errors,      \* bevy::log::error! lines of the current rotate_towards run: the
                 \* target each names, paired with the entity whose iteration logged it
    panicked,    \* the .expect() of update_global_transforms has fired
    frameStart,  \* history: transform/global/changed as rotate_towards found them
    prevGlobal,  \* history: global as the previous run of rotate_towards found it
    written,     \* history: entities this run of rotate_towards assigned, in order
    refreshed,   \* history: entities this run of update_global_transforms assigned, in order
    call         \* one stand-alone evaluation of the rotation math (SpecMath)

vars == <<transform, global, parentOf, rotateTo, changed, pc, todo, errors,
          panicked, frameStart, prevGlobal, written, refreshed, call>>

worldVars == <<transform, global, parentOf, rotateTo, changed, pc, todo, errors,
               panicked, frameStart, prevGlobal, written, refreshed>>

-----------------------------------------------------------------------------
(* Bounds *)

\* coordinates of the stand-alone math inputs range over -MaxC..MaxC
MaxC == 1

-----------------------------------------------------------------------------
(* Vectors (glam Vec3 / Dir3) *)

Abs(n) == IF n < 0 THEN -n ELSE n

RECURSIVE Gcd(_, _)
Gcd(a, b) == IF b = 0 THEN a ELSE Gcd(b, a % b)

Zero3 == <<0, 0, 0>>
X3 == <<1, 0, 0>>
Y3 == <<0, 1, 0>>
Z3 == <<0, 0, 1>>

Neg(v) == <<-v[1], -v[2], -v[3]>>
Add(v, w) == <<v[1] + w[1], v[2] + w[2], v[3] + w[3]>>
Sub(v, w) == <<v[1] - w[1], v[2] - w[2], v[3] - w[3]>>
Scale(k, v) == <<k * v[1], k * v[2], k * v[3]>>
Dot(v, w) == v[1] * w[1] + v[2] * w[2] + v[3] * w[3]
Cross(v, w) == <<v[2] * w[3] - v[3] * w[2],
                 v[3] * w[1] - v[1] * w[3],
                 v[1] * w[2] - v[2] * w[1]>>

\* the direction of v: v divided by the gcd of its components (try_normalize)
Normalize(v) ==
    LET g == Gcd(Gcd(Abs(v[1]), Abs(v[2])), Abs(v[3]))
    IN  IF g = 0 THEN v ELSE <<v[1] \div g, v[2] \div g, v[3] \div g>>

\* v and w point the same way
SameDirection(v, w) == Cross(v, w) = Zero3 /\ Dot(v, w) > 0

Collinear(v, w) == Cross(v, w) = Zero3

IsAxis(v) == Dot(v, v) = 1

\* glam Vec3::any_orthonormal_vector of a unit vector (exact for the six axes)
AnyOrthonormalVector(u) ==
    LET sign == IF u[3] >= 0 THEN 1 ELSE -1
        d    == sign + u[3]
    IN  Normalize(Scale(sign, <<-(u[1] * u[2]), sign * d - u[2] * u[2], -(u[2] * d)>>))

-----------------------------------------------------------------------------
(* Rotations (glam Quat, as the matrix <<right, up, back>>) *)

Identity == <<X3, Y3, Z3>>

\* rotation * v, for a rotation whose columns are unit vectors
RotVec(r, v) == Add(Add(Scale(v[1], r[1]), Scale(v[2], r[2])), Scale(v[3], r[3]))

\* a * b (Quat multiplication), a's columns unit vectors
RotMul(a, b) == <<Normalize(RotVec(a, b[1])), Normalize(RotVec(a, b[2])),
                  Normalize(RotVec(a, b[3]))>>

\* Quat::inverse of a rotation whose columns are unit vectors: the transpose
Inverse(r) == <<<<r[1][1], r[2][1], r[3][1]>>,
                <<r[1][2], r[2][2], r[3][2]>>,
                <<r[1][3], r[2][3], r[3][3]>>>>

\* Quat::from_axis_angle(axis, PI) * v: the half turn of v about axis
HalfTurn(axis, v) == Sub(Scale(2 * Dot(axis, v), axis), Scale(Dot(axis, axis), v))

\* Quat::from_axis_angle(axis, PI) * rotation
HalfTurnMul(axis, r) == <<Normalize(HalfTurn(axis, r[1])),
                          Normalize(HalfTurn(axis, r[2])),
                          Normalize(HalfTurn(axis, r[3]))>>

Forward(r) == Neg(r[3])
Up(r) == r[2]

Axes == {X3, Y3, Z3, Neg(X3), Neg(Y3), Neg(Z3)}

\* the 24 axis-aligned rotations
AxisRotations ==
    {<<a, b, Cross(a, b)>> : a \in Axes, b \in Axes} \ {<<a, b, Zero3>> : a \in Axes, b \in Axes}

\* a variant that takes the direction itself for the back axis
LookToDirectionAsBack(direction, up) ==
    LET back  == IF direction = Zero3 THEN Z3 ELSE Normalize(direction)
        rx    == Cross(up, back)
        right == IF rx = Zero3 THEN AnyOrthonormalVector(up) ELSE Normalize(rx)
    IN  <<right, Normalize(Cross(back, right)), back>>

\* Transform::looking_at / look_to: back = -direction (Z when the direction is
\* zero), right = up x back (any vector orthogonal to up when that is zero),
\* up = back x right
LookTo(direction, up) ==
    LET back  == IF direction = Zero3 THEN Z3 ELSE Normalize(Neg(direction))
        rx    == Cross(up, back)
        right == IF rx = Zero3 THEN AnyOrthonormalVector(up) ELSE Normalize(rx)
    IN  <<right, Normalize(Cross(back, right)), back>>

-----------------------------------------------------------------------------
(* Components *)

NoComponent == [none |-> TRUE]
NoEntity == 0

\* Transform / GlobalTransform::compute_transform: translation, rotation, scale
Trs(t, r, s) == [translation |-> t, rotation |-> r, scale |-> s]

\* UpDirection
UpTarget == [kind |-> "Target"]
UpParent == [kind |-> "Parent"]
UpDir(d) == [kind |-> "Dir", dir |-> d]

\* RotateTo
RotateTo(e, u, f) == [entity |-> e, updir |-> u, flip_vertical |-> f]

-----------------------------------------------------------------------------
(* The rotation math *)

\* a variant that leaves the rotation in world space
CalculateNoParentConversion(rotator_gt, target_gt, parent_gt, updir, flip_vertical) ==
    LET looking == LookTo(Sub(target_gt.translation, rotator_gt.translation), updir)
    IN  IF flip_vertical THEN HalfTurnMul(updir, looking) ELSE looking

\* calculate_local_rotation_to_target
calculate_local_rotation_to_target(rotator_gt, target_gt, parent_gt, updir, flip_vertical) ==
    LET looking == LookTo(Sub(target_gt.translation, rotator_gt.translation), updir)
        flipped == IF flip_vertical THEN HalfTurnMul(updir, looking) ELSE looking
    IN  IF parent_gt # NoComponent
        THEN RotMul(Inverse(parent_gt.rotation), flipped)
        ELSE flipped

\* a variant that falls back to Z
ResolveUpFallbackZ(policy, target_gt, parent_gt) ==
    CASE policy.kind = "Target" -> Up(target_gt.rotation)
      [] policy.kind = "Dir" -> policy.dir
      [] policy.kind = "Parent" ->
            IF parent_gt # NoComponent THEN Up(parent_gt.rotation) ELSE Z3

\* the match on target.updir in rotate_towards
ResolveUp(policy, target_gt, parent_gt) ==
    CASE policy.kind = "Target" -> Up(target_gt.rotation)
      [] policy.kind = "Dir" -> policy.dir
      [] policy.kind = "Parent" ->
            IF parent_gt # NoComponent THEN Up(parent_gt.rotation) ELSE Y3

\* the rotation one iteration of rotate_towards computes
NewRotation(directive, rotator_gt, target_gt, parent_gt) ==
    calculate_local_rotation_to_target(rotator_gt, target_gt, parent_gt,
        ResolveUp(directive.updir, target_gt, parent_gt), directive.flip_vertical)

-----------------------------------------------------------------------------
(* SpecMath: one evaluation of the rotation math on drawn inputs *)

Coords == -MaxC .. MaxC
Points == {<<x, y, z>> : x \in Coords, y \in Coords, z \in Coords}
Directions == {Normalize(p) : p \in Points \ {Zero3}}

\* world rotations a parent or a target is drawn with
SampleRotations == {Identity, <<Y3, Neg(X3), Z3>>, <<Z3, Y3, Neg(X3)>>,
                    <<X3, Neg(Z3), Y3>>}
RotatorPositions == {Zero3, <<1, 0, -1>>}

MathPolicies == {UpTarget, UpParent} \cup {UpDir(d) : d \in Directions}

\* an up direction collinear with the direction to the target (or a zero
\* direction to the target) is drawn only with an axis as the up direction
MathInputOk(c) ==
    LET d == Sub(c.target_gt.translation, c.rotator_gt.translation)
        u == ResolveUp(c.directive.updir, c.target_gt, c.parent_gt)
    IN  Collinear(u, IF d = Zero3 THEN Z3 ELSE d) => IsAxis(u)

MathInit ==
    /\ \E rp \in RotatorPositions, tp \in Points, tr \in SampleRotations,
          par \in {NoComponent} \cup {Trs(Zero3, r, 1) : r \in SampleRotations},
          pol \in MathPolicies, f \in BOOLEAN :
          /\ call = [rotator_gt |-> Trs(rp, Identity, 1),
                     target_gt |-> Trs(tp, tr, 1),
                     parent_gt |-> par,
                     directive |-> RotateTo(1, pol, f),
                     done |-> FALSE, updir |-> Zero3, rotation |-> Identity]
          /\ pol.kind # "Target" => tr = Identity
          /\ MathInputOk(call)
    /\ transform = <<>> /\ global = <<>> /\ parentOf = <<>> /\ rotateTo = <<>>
    /\ changed = <<>> /\ pc = "math" /\ todo = {} /\ errors = {}
    /\ panicked = FALSE /\ frameStart = <<>> /\ prevGlobal = <<>>
    /\ written = <<>> /\ refreshed = <<>>

\* lines 73-92 of rotate_towards on the drawn inputs
MathCall ==
    /\ ~call.done
    /\ call' = [call EXCEPT
                  !.done = TRUE,
                  !.updir = ResolveUp(call.directive.updir, call.target_gt, call.parent_gt),
                  !.rotation = NewRotation(call.directive, call.rotator_gt,
                                           call.target_gt, call.parent_gt)]
    /\ UNCHANGED worldVars

MathNext == MathCall

SpecMath == MathInit /\ [][MathNext]_vars

-----------------------------------------------------------------------------
(* The scene: entities on the z axis, rotations that keep the axis *)

\* local z coordinates range over -MaxCoord..MaxCoord
MaxCoord == 1

Entities == {1, 2, 3}
\* entities a RotateTo component may sit on, and entities the host moves
Rotators == {1, 2}
Movable == {3}

ZRange == -MaxCoord .. MaxCoord
OnAxis(z) == <<0, 0, z>>

ScenePolicies == {UpTarget, UpParent, UpDir(X3)}
Directives(e) ==
    {RotateTo(t, u, f) : t \in Entities \ {e}, u \in ScenePolicies, f \in BOOLEAN}

\* GlobalTransform::default()
IdentityTransform == Trs(Zero3, Identity, 1)

IsSpatial(e) == transform[e] # NoComponent /\ global[e] # NoComponent

\* GlobalTransform * Transform (parent's world transform times a local one)
MulTransform(p, l) ==
    Trs(Add(p.translation, Scale(p.scale, RotVec(p.rotation, l.translation))),
        RotMul(p.rotation, l.rotation),
        p.scale * l.scale)

\* the ancestors of e, nearest first (iter_ancestors)
RECURSIVE Ancestors(_)
Ancestors(e) ==
    IF parentOf[e] = NoEntity THEN <<>> ELSE <<parentOf[e]>> \o Ancestors(parentOf[e])

\* the local transforms tr composed from e up its ancestor chain
RECURSIVE ComposeChain(_, _, _)
ComposeChain(tr, acc, chain) ==
    IF chain = <<>> THEN acc
    ELSE ComposeChain(tr, MulTransform(tr[chain[1]], acc), Tail(chain))

ChainHasTransforms(tr, e) ==
    /\ tr[e] # NoComponent
    /\ \A i \in 1 .. Len(Ancestors(e)) : tr[Ancestors(e)[i]] # NoComponent

\* a variant that leaves the ancestors out
ComputeLocalOnly(e) ==
    IF ChainHasTransforms(transform, e) THEN transform[e] ELSE NoComponent

\* a variant that starts from the parent's cached GlobalTransform
ComputeFromCachedParent(e) ==
    IF ~ChainHasTransforms(transform, e) THEN NoComponent
    ELSE IF parentOf[e] = NoEntity \/ global[parentOf[e]] = NoComponent THEN transform[e]
    ELSE MulTransform(global[parentOf[e]], transform[e])

\* TransformHelper::compute_global_transform: the product of the Transform
\* components from e up its ancestors; NoComponent stands for Err
compute_global_transform(e) ==
    IF ChainHasTransforms(transform, e)
    THEN ComposeChain(transform, transform[e], Ancestors(e))
    ELSE NoComponent

\* bevy's transform propagation reaches e: e and all its ancestors carry
\* Transform and GlobalTransform
Propagated(e) ==
    /\ IsSpatial(e)
    /\ \A i \in 1 .. Len(Ancestors(e)) : IsSpatial(Ancestors(e)[i])

\* the entities rotate_towards iterates: GlobalTransform, Transform, RotateTo
RotatorQuery == {e \in Entities : IsSpatial(e) /\ rotateTo[e] # NoComponent}

\* a variant without the Changed<Transform> filter
RotatorsUnfilteredQuery ==
    {e \in Entities : global[e] # NoComponent /\ transform[e] # NoComponent
                      /\ rotateTo[e] # NoComponent}

\* the entities update_global_transforms iterates
ChangedQuery == {e \in Entities : global[e] # NoComponent /\ transform[e] # NoComponent
                                  /\ rotateTo[e] # NoComponent /\ changed[e]}

Init ==
    /\ \E bare \in {NoEntity, 1, 3} :
          /\ transform = [e \in Entities |->
                            IF e = bare THEN NoComponent
                            ELSE Trs(OnAxis(CASE e = 1 -> 0 [] e = 2 -> 1 [] OTHER -> -1),
                                     Identity, 1)]
          /\ global = [e \in Entities |->
                            IF e = bare THEN NoComponent ELSE IdentityTransform]
          /\ changed = [e \in Entities |-> e # bare]
          /\ rotateTo \in [Entities -> {NoComponent} \cup UNION {Directives(e) : e \in Rotators}]
          /\ \A e \in Entities :
                rotateTo[e] # NoComponent =>
                    e \in Rotators /\ e # bare /\ rotateTo[e] \in Directives(e)
    /\ parentOf \in [Entities -> Entities \cup {NoEntity}]
    /\ \A e \in Entities : parentOf[e] = NoEntity \/ parentOf[e] < e
    /\ pc = "update"
    /\ todo = {}
    /\ errors = {}
    /\ panicked = FALSE
    /\ frameStart = [transform |-> transform, global |-> global, changed |-> changed]
    /\ prevGlobal = NoComponent
    /\ written = <<>>
    /\ refreshed = <<>>
    /\ call = [done |-> TRUE]

\* the host's own systems of a frame leave the scene as it is
AppIdle ==
    /\ pc = "update"
    /\ pc' = "propagate"
    /\ UNCHANGED <<transform, global, parentOf, rotateTo, changed, todo, errors,
                   panicked, frameStart, prevGlobal, written, refreshed, call>>

\* the host's own systems of a frame move one entity along the axis
AppMove(e, z) ==
    /\ pc = "update"
    /\ transform[e] # NoComponent
    /\ transform[e].translation # OnAxis(z)
    /\ transform' = [transform EXCEPT ![e].translation = OnAxis(z)]
    /\ changed' = [changed EXCEPT ![e] = TRUE]
    /\ pc' = "propagate"
    /\ UNCHANGED <<global, parentOf, rotateTo, todo, errors, panicked, frameStart,
                   prevGlobal, written, refreshed, call>>

\* TransformSystem::TransformPropagate, after which rotate_towards starts
TransformPropagate ==
    /\ pc = "propagate"
    /\ global' = [e \in Entities |->
                    IF Propagated(e) THEN compute_global_transform(e) ELSE global[e]]
    /\ frameStart' = [transform |-> transform, global |-> global', changed |-> changed]
    /\ pc' = "rotate"
    /\ todo' = RotatorQuery
    /\ UNCHANGED <<transform, parentOf, rotateTo, changed, errors, panicked, prevGlobal,
                   written, refreshed, call>>

TargetGt(e) ==
    IF rotateTo[e].entity \in Entities THEN global[rotateTo[e].entity] ELSE NoComponent

\* lines 67-71: a parent that has no GlobalTransform counts as no parent
ParentGt(e) ==
    IF parentOf[e] # NoEntity THEN global[parentOf[e]] ELSE NoComponent

\* Quat::abs_diff_eq(.., EPSILON); the arithmetic is exact
AbsDiffEq(a, b) == a = b

\* a variant that also gives up on a parent without GlobalTransform
TargetAndParentFound(e) ==
    /\ TargetGt(e) # NoComponent
    /\ parentOf[e] # NoEntity => global[parentOf[e]] # NoComponent

\* lines 62-65: the let-else on the target's GlobalTransform
TargetFound(e) == TargetGt(e) # NoComponent

\* a variant that leaves the loop (return)
RestAfterAbort(rest, e) == {}

\* what is left of the loop after the iteration of e that found no target
\* (continue)
RestAfterMissingTarget(rest, e) == rest \ {e}

\* a variant that assigns unconditionally
AlwaysWrite(rotation, stored) == TRUE

\* line 95: the condition of the assignment
MustWrite(rotation, stored) == ~AbsDiffEq(rotation, stored)

\* one iteration of the loop of rotate_towards; the query's iteration order
\* is not fixed, so any entity still to visit may come next
rotate_towards(e) ==
    /\ pc = "rotate"
    /\ e \in todo
    /\ IF ~TargetFound(e)
       THEN /\ errors' = errors \cup {<<e, rotateTo[e].entity>>}
            /\ todo' = RestAfterMissingTarget(todo, e)
            /\ UNCHANGED <<transform, changed, written>>
       ELSE LET rotation == NewRotation(rotateTo[e], global[e], TargetGt(e), ParentGt(e))
            IN  /\ IF MustWrite(rotation, transform[e].rotation)
                   THEN /\ transform' = [transform EXCEPT ![e].rotation = rotation]
                        /\ changed' = [changed EXCEPT ![e] = TRUE]
                        /\ written' = Append(written, e)
                   ELSE UNCHANGED <<transform, changed, written>>
                /\ todo' = todo \ {e}
                /\ UNCHANGED errors
    /\ UNCHANGED <<global, parentOf, rotateTo, pc, panicked, frameStart, prevGlobal,
                   refreshed, call>>

\* rotate_towards returns; update_global_transforms starts (.chain())
rotate_towards_return ==
    /\ pc = "rotate"
    /\ todo = {}
    /\ pc' = "refresh"
    /\ todo' = ChangedQuery
    /\ UNCHANGED <<transform, global, parentOf, rotateTo, changed, errors, panicked,
                   frameStart, prevGlobal, written, refreshed, call>>

\* one iteration of the loop of update_global_transforms
update_global_transforms(e) ==
    /\ pc = "refresh"
    /\ e \in todo
    /\ IF compute_global_transform(e) = NoComponent
       THEN /\ panicked' = TRUE
            /\ pc' = "panicked"
            /\ todo' = {}
            /\ UNCHANGED <<global, refreshed>>
       ELSE /\ global' = [global EXCEPT ![e] = compute_global_transform(e)]
            /\ refreshed' = Append(refreshed, e)
            /\ todo' = todo \ {e}
            /\ UNCHANGED <<pc, panicked>>
    /\ UNCHANGED <<transform, parentOf, rotateTo, changed, errors, frameStart, prevGlobal,
                   written, call>>

\* update_global_transforms returns: its Changed<Transform> filter starts anew
update_global_transforms_return ==
    /\ pc = "refresh"
    /\ todo = {}
    /\ changed' = [e \in Entities |-> FALSE]
    /\ pc' = "update"
    /\ frameStart' = [transform |-> transform, global |-> global, changed |-> changed']
    /\ prevGlobal' = frameStart.global
    /\ errors' = {}
    /\ written' = <<>>
    /\ refreshed' = <<>>
    /\ UNCHANGED <<transform, global, parentOf, rotateTo, todo, panicked, call>>

Next ==
    \/ AppIdle
    \/ \E e \in Movable, z \in ZRange : AppMove(e, z)
    \/ TransformPropagate
    \/ \E e \in Entities : rotate_towards(e)
    \/ rotate_towards_return
    \/ \E e \in Entities : update_global_transforms(e)
    \/ update_global_transforms_return

Spec == Init /\ [][Next]_vars

\* every rotation of the scene is one of the 24 axis-aligned rotations
SceneIsExact ==
    \A e \in Entities :
        /\ transform[e] # NoComponent => transform[e].rotation \in AxisRotations
        /\ global[e] # NoComponent => global[e].rotation \in AxisRotations

-----------------------------------------------------------------------------
(* Claims about the rotation math (SpecMath) *)

CallDirection == Sub(call.target_gt.translation, call.rotator_gt.translation)

\* the world rotation a local rotation amounts to under the call's parent
CallWorld(local) ==
    IF call.parent_gt # NoComponent THEN RotMul(call.parent_gt.rotation, local) ELSE local

\* rotator and target apart, and the up direction not collinear with the
\* direction to the target
CallAdmissible ==
    /\ CallDirection # Zero3
    /\ ~Collinear(call.updir, CallDirection)

\* C1: without flip_vertical, the returned local rotation composed with the
\* parent's world rotation (taken as it is without a parent) is a world
\* rotation whose forward axis points along target.position - rotator.position.
C1_ForwardPointsAtTarget ==
    (call.done /\ ~call.directive.flip_vertical /\ CallAdmissible)
        => SameDirection(Forward(CallWorld(call.rotation)), CallDirection)

C1_Witness ==
    /\ call.done /\ ~call.directive.flip_vertical /\ CallAdmissible
    /\ call.parent_gt # NoComponent /\ call.parent_gt.rotation # Identity
    /\ ~IsAxis(Normalize(CallDirection))
    /\ SameDirection(Forward(CallWorld(call.rotation)), CallDirection)

\* the world rotation of the same call made without flip_vertical
CallUnflippedWorld ==
    CallWorld(calculate_local_rotation_to_target(call.rotator_gt, call.target_gt,
                                                 call.parent_gt, call.updir, FALSE))

C2_FlipWithPerpendicularUp ==
    (call.done /\ call.directive.flip_vertical /\ CallAdmissible
        /\ Dot(call.updir, CallDirection) = 0)
        => /\ Up(CallWorld(call.rotation)) = Up(CallUnflippedWorld)
           /\ Forward(CallWorld(call.rotation)) = Neg(Forward(CallUnflippedWorld))

\* C8: up policy Parent on an object without a parent gives the up direction
\* and the local rotation of the same directive with up policy Dir((0,1,0)).
C8_ParentUpWithoutParentIsDirY ==
    (call.done /\ call.directive.updir.kind = "Parent" /\ call.parent_gt = NoComponent)
        => /\ call.updir = Y3
           /\ call.rotation =
                NewRotation([call.directive EXCEPT !.updir = UpDir(Y3)],
                            call.rotator_gt, call.target_gt, call.parent_gt)

C8_Witness ==
    /\ call.done /\ call.directive.updir.kind = "Parent" /\ call.parent_gt = NoComponent
    /\ call.directive.flip_vertical
    /\ CallDirection # Zero3 /\ ~IsAxis(Normalize(CallDirection))
    /\ call.updir = Y3

-----------------------------------------------------------------------------
(* Claims about the systems (Spec) *)

\* rotate_towards has returned
RunDone == pc = "refresh"

\* update_global_transforms has visited every changed rotator: the tick's end
TickDone == pc = "refresh" /\ todo = {}

SeqToSet(q) == {q[i] : i \in 1 .. Len(q)}
WrittenSet == SeqToSet(written)
RefreshedSet == SeqToSet(refreshed)

Target(e) == rotateTo[e].entity

\* the target handle of e resolves to an entity with a GlobalTransform
TargetResolves(e) == Target(e) \in Entities /\ global[Target(e)] # NoComponent

\* the parent's world transform as the run read it
StartParentGt(e) ==
    IF parentOf[e] # NoEntity THEN frameStart.global[parentOf[e]] ELSE NoComponent

\* the rotation the run computes for e from what it read
StartRotation(e) ==
    NewRotation(rotateTo[e], frameStart.global[e], frameStart.global[Target(e)],
                StartParentGt(e))

\* the up direction the run resolves for e from what it read
StartUp(e) == ResolveUp(rotateTo[e].updir, frameStart.global[Target(e)], StartParentGt(e))

\* C3: a rotator whose target has no world transform gets an error reported
\* and keeps its local rotation, and every other rotator of the run ends with
\* the local rotation it gets when the failing one is not processed at all.
C3_MissingTargetIsSkippedAlone ==
    RunDone =>
        \A e \in RotatorQuery :
            ~TargetResolves(e) =>
                /\ <<e, Target(e)>> \in errors
                /\ transform[e] = frameStart.transform[e]
                /\ \A o \in RotatorQuery \ {e} :
                      TargetResolves(o) => transform[o].rotation = StartRotation(o)

C3_Witness ==
    /\ RunDone
    /\ \E e \in RotatorQuery, o \in RotatorQuery :
          /\ ~TargetResolves(e) /\ <<e, Target(e)>> \in errors
          /\ o \in WrittenSet
          /\ transform[o].rotation = StartRotation(o)

ParentLookupFails(e) == parentOf[e] # NoEntity /\ global[parentOf[e]] = NoComponent

\* C4 as claimed: a rotator whose parent has no world transform keeps the
\* local rotation it had before the run.
C4_FailedParentKeepsRotation ==
    RunDone =>
        \A e \in RotatorQuery :
            ParentLookupFails(e) => transform[e].rotation = frameStart.transform[e].rotation

\* C4 amended: a rotator whose parent has no world transform and whose target
\* resolves is processed as a rotator without parent: it ends the run with the
\* look-at rotation in world space, not converted into any parent's frame.
C4_FailedParentCountsAsNoParent ==
    RunDone =>
        \A e \in RotatorQuery :
            (ParentLookupFails(e) /\ TargetResolves(e)) =>
                transform[e].rotation =
                    NewRotation(rotateTo[e], frameStart.global[e],
                                frameStart.global[Target(e)], NoComponent)

C4_Witness ==
    /\ RunDone
    /\ \E e \in RotatorQuery :
          /\ ParentLookupFails(e) /\ TargetResolves(e)
          /\ e \in WrittenSet
          /\ transform[e].rotation # frameStart.transform[e].rotation

\* the world transform of e re-derived from the local transforms of its chain
Derived(e) ==
    IF ChainHasTransforms(transform, e)
    THEN ComposeChain(transform, transform[e], Ancestors(e))
    ELSE NoComponent

\* the direction from e to its target, in re-derived world positions
DerivedDirection(e) == Sub(Derived(Target(e)).translation, Derived(e).translation)

\* e and its target have re-derivable world transforms at different positions
AimsAtTarget(e) ==
    /\ TargetResolves(e)
    /\ Derived(e) # NoComponent /\ Derived(Target(e)) # NoComponent
    /\ DerivedDirection(e) # Zero3

\* C5 as claimed: at the end of every tick the re-derived world rotation of
\* every rotator with a resolved target elsewhere has its forward axis (its
\* reverse with flip_vertical) pointing at the target's world position, in
\* every hierarchy.
C5_ForwardAtTargetEveryHierarchy ==
    TickDone =>
        \A e \in RotatorQuery :
            AimsAtTarget(e) =>
                SameDirection(Forward(Derived(e).rotation),
                              IF rotateTo[e].flip_vertical
                              THEN Neg(DerivedDirection(e)) ELSE DerivedDirection(e))

\* no entity above e, and none above its target, was rewritten by this run,
\* and propagation reached both
RunLeftChainsAlone(e) ==
    /\ Propagated(e) /\ Propagated(Target(e))
    /\ SeqToSet(Ancestors(e)) \cap WrittenSet = {}
    /\ SeqToSet(Ancestors(Target(e))) \cap WrittenSet = {}

\* C5 amended: the same, for the rotators whose ancestors and whose target's
\* ancestors were not rewritten in the tick; with flip_vertical the forward
\* axis is the direction to the target turned by 180 degrees about the up
\* direction.
C5_ForwardAtTargetUnlessChainRewritten ==
    TickDone =>
        \A e \in RotatorQuery :
            (AimsAtTarget(e) /\ RunLeftChainsAlone(e)
                /\ ~Collinear(StartUp(e), DerivedDirection(e))) =>
                SameDirection(Forward(Derived(e).rotation),
                              IF rotateTo[e].flip_vertical
                              THEN HalfTurn(StartUp(e), DerivedDirection(e))
                              ELSE DerivedDirection(e))

C5_Witness ==
    /\ TickDone
    /\ \E e \in RotatorQuery :
          /\ AimsAtTarget(e) /\ RunLeftChainsAlone(e)
          /\ parentOf[e] # NoEntity
          /\ Derived(parentOf[e]).rotation # Identity
          /\ e \in WrittenSet
          /\ SameDirection(Forward(Derived(e).rotation),
                           IF rotateTo[e].flip_vertical
                           THEN Neg(DerivedDirection(e)) ELSE DerivedDirection(e))

\* a previous run read the same world positions of e, its target and its parent
SamePositionsAsPreviousTick(e) ==
    /\ prevGlobal # NoComponent
    /\ \A x \in {e, Target(e)} \cup (IF parentOf[e] = NoEntity THEN {} ELSE {parentOf[e]}) :
          /\ prevGlobal[x] # NoComponent /\ frameStart.global[x] # NoComponent
          /\ prevGlobal[x].translation = frameStart.global[x].translation

\* a previous run read the same world rotations of e's target and parent
SameRotationsAsPreviousTick(e) ==
    \A x \in {Target(e)} \cup (IF parentOf[e] = NoEntity THEN {} ELSE {parentOf[e]}) :
        prevGlobal[x].rotation = frameStart.global[x].rotation

\* the look-at invariant at the start of the run: the world rotation
\* re-derived from the local transforms has its forward axis (its reverse with
\* flip_vertical) pointing at the target
SatisfiedAtStart(e) ==
    /\ ChainHasTransforms(frameStart.transform, e)
    /\ LET w == ComposeChain(frameStart.transform, frameStart.transform[e], Ancestors(e))
           d == Sub(frameStart.global[Target(e)].translation, w.translation)
       IN  /\ d # Zero3
           /\ SameDirection(Forward(w.rotation),
                            IF rotateTo[e].flip_vertical THEN Neg(d) ELSE d)

\* C6 as claimed: with the world positions of target, parent and rotator as in
\* the previous tick and the look-at invariant satisfied at the start of the
\* tick, rotate_towards does not write the rotator's local rotation.
C6_NoWriteWhenPositionsUnchanged ==
    RunDone =>
        \A e \in RotatorQuery :
            (TargetResolves(e) /\ SamePositionsAsPreviousTick(e) /\ SatisfiedAtStart(e))
                => e \notin WrittenSet

\* C6 amended: with the world positions of target, parent and rotator and the
\* world rotations of target and parent as the previous run read them,
\* rotate_towards does not write the local rotation the previous run left; and
\* a run writes only a rotation that differs from the stored one.
C6_NoWriteWhenInputsUnchanged ==
    RunDone =>
        \A e \in RotatorQuery :
            /\ (TargetResolves(e) /\ SamePositionsAsPreviousTick(e)
                    /\ SameRotationsAsPreviousTick(e)) => e \notin WrittenSet
            /\ e \in WrittenSet => StartRotation(e) # frameStart.transform[e].rotation

C6_Witness ==
    /\ RunDone /\ todo = {}
    /\ \E e \in RotatorQuery :
          /\ TargetResolves(e) /\ SamePositionsAsPreviousTick(e)
          /\ SameRotationsAsPreviousTick(e) /\ SatisfiedAtStart(e)
          /\ transform[e].rotation # Identity
          /\ e \notin WrittenSet /\ e \notin RefreshedSet

\* d lies below e in the hierarchy
IsDescendant(d, e) == e \in SeqToSet(Ancestors(d))

\* C7 as claimed: after the refresh pass every descendant of a rotator that was
\* overwritten in the tick has a cached world transform equal to the
\* composition of the local transforms along its chain.
C7_DescendantsAreRefreshed ==
    TickDone =>
        \A e \in WrittenSet, d \in Entities :
            (IsDescendant(d, e) /\ global[d] # NoComponent /\ Derived(d) # NoComponent)
                => global[d] = Derived(d)

\* C7 amended: after the refresh pass every rotator that was overwritten in the
\* tick has itself a cached world transform equal to the composition of the
\* local transforms along its chain (its descendants keep theirs).
C7_OverwrittenRotatorIsRefreshed ==
    TickDone => \A e \in WrittenSet : global[e] = Derived(e)

C7_Witness ==
    /\ TickDone
    /\ \E e \in WrittenSet :
          /\ parentOf[e] # NoEntity /\ parentOf[e] \in WrittenSet
          /\ global[e] = Derived(e)
          /\ global[e] # frameStart.global[e]

\* C9: rotate_towards changes the rotation of the local transform of rotators
\* and nothing else; update_global_transforms changes the cached world
\* transform of rotators whose local transform changed since its last run and
\* nothing else.
C9_FrameOfATick ==
    [][/\ pc = "rotate" =>
            /\ global' = global /\ rotateTo' = rotateTo /\ parentOf' = parentOf
            /\ \A e \in Entities :
                  transform'[e] # transform[e] =>
                      /\ e \in RotatorQuery
                      /\ transform'[e] = [transform[e] EXCEPT !.rotation = transform'[e].rotation]
       /\ pc = "refresh" =>
            /\ transform' = transform /\ rotateTo' = rotateTo /\ parentOf' = parentOf
            /\ \A e \in Entities :
                  global'[e] # global[e] => (rotateTo[e] # NoComponent /\ changed[e])
      ]_vars

C9_Witness ==
    /\ TickDone
    /\ refreshed # <<>>
    /\ \E e \in RotatorQuery, o \in Entities \ RotatorQuery :
          /\ ~frameStart.changed[e] /\ e \notin WrittenSet
          /\ Derived(e) # NoComponent /\ global[e] # Derived(e)
          /\ global[e] = frameStart.global[e]
          /\ global[o] # NoComponent /\ Derived(o) # NoComponent /\ global[o] # Derived(o)

\* the local transform e has after the run, from what the run read
ExpectedTransform(e) ==
    IF e \in RotatorQuery /\ frameStart.global[Target(e)] # NoComponent
    THEN [frameStart.transform[e] EXCEPT !.rotation = StartRotation(e)]
    ELSE frameStart.transform[e]

\* the cached world transform e has after the tick, from what the run read
ExpectedGlobal(e) ==
    IF /\ e \in RotatorQuery
       /\ (frameStart.changed[e] \/ ExpectedTransform(e) # frameStart.transform[e])
    THEN ComposeChain([x \in Entities |-> ExpectedTransform(x)], ExpectedTransform(e),
                      Ancestors(e))
    ELSE frameStart.global[e]

\* C10: the local transforms and cached world transforms at the end of a tick
\* are a function of the state the tick started from, whatever the order in
\* which the two systems visit the entities.
C10_TickIsOrderIndependent ==
    TickDone =>
        \A e \in Entities :
            /\ transform[e] = ExpectedTransform(e)
            /\ global[e] = ExpectedGlobal(e)

C10_Witness ==
    /\ TickDone
    /\ Len(written) = 2 /\ Len(refreshed) = 2
    /\ parentOf[refreshed[1]] = refreshed[2]
    /\ parentOf[written[1]] = written[2]
    /\ \A e \in Entities : global[e] = ExpectedGlobal(e)

=============================================================================
